---- MODULE Spec2Model ----
(***************************************************************************)
(* Webex OAuth integration sample: the authorization-code callback, the    *)
(* token exchange and the session binding, as implemented by the three     *)
(* server variants of the repository:                                      *)
(*   "server.js"  src/server.js          request-based, no session         *)
(*   "part_000"   src/unnamed/part_000   node-fetch / async handlers       *)
(*   "part_001"   src/unnamed/part_001   request-based with express-session*)
(* One behaviour of the model is one run of one variant.                   *)
(***************************************************************************)
EXTENDS Integers, Sequences, FiniteSets, Bags, TLC

(* ------------------------------ bounds --------------------------------- *)

\* number of requests that may be awaiting a provider response at once
MaxInflight == 2

(* ---------------------------- value domains ---------------------------- *)

Variants == {"server.js", "part_000", "part_001"}
\* the variants that install the express-session middleware
SessionVariants == {"part_000", "part_001"}

\* the workloads: "callbacks", the user agents request the callback route
\* only, up to MaxInflight requests awaiting the provider at once; "routes",
\* they request every route, one request awaiting the provider at a time;
\* "relogin", one user agent requests the callback route only, up to
\* MaxInflight requests at once, and the provider issues one token more
Workloads == {"callbacks", "routes", "relogin"}

\* user agents, one session cookie each
Agents == {"ua1", "ua2"}

\* JavaScript undefined (an absent query parameter, an absent property)
Undefined == "undefined"

\* the access tokens of the provider, in the order it issues them: it never
\* issues the same one twice
TokenSeq == <<"T1", "T2", "T3">>
Tokens == {TokenSeq[n] : n \in 1 .. Len(TokenSeq)}
\* authorization codes a provider may hand back on the callback
Codes == {"abc123"}
\* the value of the process-wide `state` constant, and a value that differs
ExpectedState == "S0"
ForgedState == "S9"

ErrorKinds == {"access_denied", "invalid_scope", "server_error", "temporarily_unavailable"}

\* query strings of GET /oauth: without an error parameter, every combination
\* of code and state; with one, both of them present and matching, or (for a
\* denial) both absent
Queries ==
  [error : {Undefined},
   code  : Codes \cup {Undefined},
   state : {ExpectedState, ForgedState, Undefined}]
    \cup [error : ErrorKinds, code : Codes, state : {ExpectedState}]
    \cup [error : {"access_denied"}, code : {Undefined}, state : {Undefined}]

RequiredFields == {"access_token", "expires_in", "refresh_token", "refresh_token_expires_in"}

Bundle(t) ==
  [access_token |-> t, expires_in |-> 1209600,
   refresh_token |-> "R1", refresh_token_expires_in |-> 7776000]

Without(obj, f) == [g \in (DOMAIN obj) \ {f} |-> obj[g]]

\* JSON objects the token endpoint may answer with, t the token it would issue
\* (undefined once it issues no more): a complete bundle, a bundle that lacks
\* one required property, an error object
TokenObjects(t) ==
  {Without(Bundle(t), f) : f \in IF t = Undefined THEN {"access_token"} ELSE RequiredFields}
    \cup (IF t = Undefined THEN {} ELSE {Bundle(t)})
    \cup {[message |-> "invalid_grant"]}

\* JSON objects the people/me endpoint may answer with
ProfileObjects == {[displayName |-> "Ada"], [message |-> "unauthorized"]}

\* response bodies: text that is not JSON, the JSON literal null, a JSON object
EmptyObject == [k \in {} |-> Undefined]

BodiesOf(objs) ==
  {[json |-> "invalid", obj |-> EmptyObject], [json |-> "null", obj |-> EmptyObject]}
    \cup {[json |-> "object", obj |-> o] : o \in objs}

\* what an outbound call can come back with: a transport failure, or a status
\* with a body
ResponsesOf(statuses, objs) ==
  {[error |-> TRUE, statusCode |-> 0, body |-> [json |-> "invalid", obj |-> EmptyObject]]}
    \cup [error : {FALSE}, statusCode : statuses, body : BodiesOf(objs)]

\* the token endpoint: status 200 with every body; status 400 with a body that
\* is no JSON, null, an error object, or (a provider at fault) a complete
\* bundle; status 401 and 500 with an error object
TokenResponses(t) ==
  ResponsesOf({200}, TokenObjects(t))
    \cup ResponsesOf({400},
                     {[message |-> "invalid_grant"]}
                       \cup (IF t = Undefined THEN {} ELSE {Bundle(t)}))
    \cup [error : {FALSE}, statusCode : {401, 500},
          body : {[json |-> "object", obj |-> [message |-> "invalid_grant"]]}]

ProfileResponses == ResponsesOf({200, 401}, ProfileObjects)

\* JSON objects the rooms endpoint may answer with
RoomsObjects == {[items |-> "rooms"], [message |-> "unauthorized"]}
RoomsResponses == ResponsesOf({200, 401}, RoomsObjects)

NoResponse == [error |-> FALSE, statusCode |-> 0, body |-> [json |-> "invalid", obj |-> EmptyObject]]
NoQuery == [error |-> Undefined, code |-> Undefined, state |-> Undefined]

(* ------------------------------- pages --------------------------------- *)

PageHead == "<h1>OAuth Integration could not complete</h1>"
PageDeclined == PageHead \o "<p>User declined data access request, bye.</p>"
PageInvalidScope == PageHead \o "<p>This application requested an invalid scope. Make sure your Integration contains all scopes being requested by the app, bye.</p>"
PageServerError == PageHead \o "<p>Webex sent a server error, bye.</p>"
PageNotImplemented == PageHead \o "<p>Error case not implemented, bye.</p>"
PageUnexpectedQuery == PageHead \o "<p>Unexpected query parameters, ignoring...</p>"
PageStateMismatch == PageHead \o "<p>State in response does does not match the one in the request, aborting...</p>"
PageNoAccessToken == PageHead \o "<p>Sorry, could not retrieve your access token. Try again...</p>"
PageBadRequest(message) == PageHead \o "<p>Bad request. <br/>" \o message \o "</p>"
PageAuthError == PageHead \o "<p>OAuth authentication error. Ask the service contact to check the secret.</p>"
PageParseToken == PageHead \o "<p>Could not parse API access token. Try again...</p>"
PageAccountDetails == PageHead \o "<p>Sorry, could not retrieve your Webex account details.</p>"
PageDisplayName(name) == "display-name.ejs:" \o name
PageRooms == PageHead \o "<p>Sorry, could not retrieve your Webex rooms.</p>"
PageListRooms(rooms) == "list-rooms.ejs:" \o rooms
PageIndex(link) == "index.ejs:" \o link
\* res.redirect(url)
Redirect(url) == "302 Found. Redirecting to " \o url
\* what Express answers when a handler throws synchronously
PageExpress500 == "500 Internal Server Error"

(* ------------------------------- state --------------------------------- *)

VARIABLES
  variant,   \* which server file is running
  workload,  \* what the user agents do in this run, see Workloads
  config,    \* clientId, clientSecret, redirectURI of the process
  phase,     \* "boot", "listening", "exited" (configuration check), "crashed"
  state,     \* the process-wide constant `state`
  sessions,  \* the session store: agent -> session record
  inflight,  \* the bag of the requests awaiting a provider response
  issued,    \* the number of access tokens the provider has issued
  presented, \* the agents that the home route has served the authorization URL
  last       \* the handler step taken last: its input and the request after it

vars == <<variant, workload, config, phase, state, sessions, inflight, issued, presented, last>>

\* an identifier that was never declared: reading it throws ReferenceError
NotDeclared == "ReferenceError"

NoSession == [exists |-> FALSE, token |-> Undefined]
Session(t) == [exists |-> TRUE, token |-> t]

\* a request: its route and position, its copy of the session (and the copy
\* as loaded), the outbound calls it issued and the responses it sent;
\* exchanged: its token exchange was answered 200 with a complete bundle;
\* outdated: a logout of its session was handled while it was pending;
\* stamp: of two callbacks of one session that are pending at the same time,
\* the one that arrived later has the greater stamp;
\* superseded: a callback of its session that arrived later has bound a token;
\* returned, logged: of a call of refreshAccessToken, the value it handed back
\* to its caller and the lines it wrote with debug()
Idle ==
  [pc |-> "idle", route |-> "none", agent |-> "none", code |-> Undefined,
   session |-> NoSession, orig |-> NoSession,
   posts |-> <<>>, gets |-> <<>>, sent |-> <<>>,
   exchanged |-> FALSE, outdated |-> FALSE, stamp |-> 0, superseded |-> FALSE,
   returned |-> Undefined, logged |-> <<>>]

NoStep ==
  [step |-> "none", req |-> Idle, query |-> NoQuery, resp |-> NoResponse,
   before |-> NoSession]

(* ------------------------- client registration ------------------------ *)

\* an environment variable that is not set
Empty == ""

\* the client_id and the redirect_uri inside the authorization URL that a
\* variant hard-codes (server.js serves a static page and hard-codes none)
URLClientId ==
  CASE variant = "part_000" -> "C97c955d459b1195dd914456c56d7193b3b9db2f96e55226d1bb875c6dc40c16a"
    [] variant = "part_001" -> "C909b987b64167258774e532d595702ef864a35f7614678dbe4046056daf67d63"
    [] OTHER -> Empty
URLRedirectURI == "http://localhost:8080/oauth"
URLScope ==
  IF variant = "part_000"
  THEN "spark:kms spark:people_read spark:rooms_read"
  ELSE "spark:kms spark:people_read spark:rooms_read spark:rooms_write"

\* CLIENT_ID, REDIRECT_URI and CLIENT_SECRET of an integration of one's own
EnvClientId == "Cenv"
EnvRedirectURI == "https://app.example.com/oauth"
EnvClientSecret == "s3cret"
\* SCOPES unset
DefaultScopes == "spark:people_read"

\* encodeURIComponent, on the strings the model passes to it
EncodeURIComponent(str) ==
  CASE str = "http://localhost:8080/oauth" -> "http%3A%2F%2Flocalhost%3A8080%2Foauth"
    [] str = "https://app.example.com/oauth" -> "https%3A%2F%2Fapp.example.com%2Foauth"
    [] str = "http://localhost:8080" -> "http%3A%2F%2Flocalhost%3A8080"
    [] str = "https://app.example.com" -> "https%3A%2F%2Fapp.example.com"
    [] str = "spark:people_read" -> "spark%3Apeople_read"
    [] str = "spark:kms spark:people_read spark:rooms_read"
         -> "spark%3Akms%20spark%3Apeople_read%20spark%3Arooms_read"
    [] str = "spark:kms spark:people_read spark:rooms_read spark:rooms_write"
         -> "spark%3Akms%20spark%3Apeople_read%20spark%3Arooms_read%20spark%3Arooms_write"
    [] OTHER -> str

\* redirectURL.substring(0, redirectURL.length - 5), on the same strings
StripCallbackPath(str) ==
  CASE str = "http://localhost:8080/oauth" -> "http://localhost:8080"
    [] str = "https://app.example.com/oauth" -> "https://app.example.com"
    [] OTHER -> Empty

(* ------------------------- session middleware -------------------------- *)

\* req.session as the middleware hands it to a handler of agent a
LoadSession(a) ==
  IF variant \in SessionVariants
  THEN IF sessions[a].exists THEN sessions[a] ELSE Session(Undefined)
  ELSE NoSession

\* the store with one session object shared by all agents
CommitSessionShared(r) ==
  IF r.session.exists /\ r.session # r.orig
  THEN [a \in Agents |-> Session(r.session.token)]
  ELSE sessions

\* the store after res.end() of request r: a modified session is saved
CommitSession(r) ==
  IF r.session.exists /\ r.session # r.orig
  THEN [sessions EXCEPT ![r.agent] = Session(r.session.token)]
  ELSE sessions

(* ------------------------------ GET /oauth ----------------------------- *)

\* the pages with the branch of invalid_scope left out
ErrorPageNoScopeBranch(error) ==
  CASE error = "access_denied" -> PageDeclined
    [] error = "server_error"  -> PageServerError
    [] OTHER                   -> PageNotImplemented

\* the page for a callback that carries an error parameter
ErrorPage(error) ==
  CASE error = "access_denied" -> PageDeclined
    [] error = "invalid_scope" -> PageInvalidScope
    [] error = "server_error"  -> PageServerError
    [] OTHER                   -> PageNotImplemented

\* the checks without the comparison of the state
PreconditionNoStateCheck(q) ==
  IF q.error # Undefined THEN [act |-> "send", page |-> ErrorPage(q.error)]
  ELSE IF q.code = Undefined \/ q.state = Undefined
  THEN [act |-> "send", page |-> PageUnexpectedQuery]
  ELSE [act |-> "post", page |-> Undefined]

\* the checks with the test for missing parameters moved to the front
PreconditionParamsFirst(q) ==
  IF q.code = Undefined \/ q.state = Undefined
  THEN [act |-> "send", page |-> PageUnexpectedQuery]
  ELSE IF q.error # Undefined THEN [act |-> "send", page |-> ErrorPage(q.error)]
  ELSE IF state = NotDeclared THEN [act |-> "throw", page |-> PageExpress500]
  ELSE IF state # q.state THEN [act |-> "send", page |-> PageStateMismatch]
  ELSE [act |-> "post", page |-> Undefined]

\* the checks with a state that is accepted once: it is refused as soon as a
\* callback is pending or a session holds a token
PreconditionSingleUse(q) ==
  IF q.error # Undefined THEN [act |-> "send", page |-> ErrorPage(q.error)]
  ELSE IF q.code = Undefined \/ q.state = Undefined
  THEN [act |-> "send", page |-> PageUnexpectedQuery]
  ELSE IF state = NotDeclared THEN [act |-> "throw", page |-> PageExpress500]
  ELSE IF \/ state # q.state
          \/ inflight # EmptyBag
          \/ \E a \in Agents : sessions[a].token # Undefined
  THEN [act |-> "send", page |-> PageStateMismatch]
  ELSE [act |-> "post", page |-> Undefined]

\* the checks of the handler before the exchange, in the order of the code
Precondition(q) ==
  IF q.error # Undefined THEN [act |-> "send", page |-> ErrorPage(q.error)]
  ELSE IF q.code = Undefined \/ q.state = Undefined
  THEN [act |-> "send", page |-> PageUnexpectedQuery]
  ELSE IF state = NotDeclared THEN [act |-> "throw", page |-> PageExpress500]
  ELSE IF state # q.state THEN [act |-> "send", page |-> PageStateMismatch]
  ELSE [act |-> "post", page |-> Undefined]

\* the form without the code of the request
TokenFormNoCode(code) ==
  [method |-> "POST", url |-> "https://webexapis.com/v1/access_token",
   grant_type |-> "authorization_code", client_id |-> config.clientId,
   client_secret |-> config.clientSecret, code |-> Undefined,
   redirect_uri |-> config.redirectURI]

\* the form of the POST to the token endpoint
TokenForm(code) ==
  [method |-> "POST", url |-> "https://webexapis.com/v1/access_token",
   grant_type |-> "authorization_code", client_id |-> config.clientId,
   client_secret |-> config.clientSecret, code |-> code,
   redirect_uri |-> config.redirectURI]

\* a property of a parsed JSON object, undefined when the object lacks it
Get(obj, f) == IF f \in DOMAIN obj THEN obj[f] ELSE Undefined

\* `!obj.f`: every value a body of the model carries is truthy (a non-empty
\* string, a positive number), so the test is the absence of the property
Not(obj, f) == f \notin DOMAIN obj

\* the callback of the token POST in the request-based variants
RequestTokenCallback(resp) ==
  IF resp.error THEN [act |-> "send", page |-> PageNoAccessToken, token |-> Undefined]
  ELSE IF resp.statusCode # 200
  THEN CASE resp.statusCode = 400 ->
              IF resp.body.json # "object"
              THEN [act |-> "throw", page |-> Undefined, token |-> Undefined]
              ELSE [act |-> "send", page |-> PageBadRequest(Get(resp.body.obj, "message")),
                    token |-> Undefined]
         [] resp.statusCode = 401 ->
              [act |-> "send", page |-> PageAuthError, token |-> Undefined]
         [] OTHER ->
              [act |-> "send", page |-> PageNoAccessToken, token |-> Undefined]
  ELSE IF resp.body.json = "invalid"
  THEN [act |-> "throw", page |-> Undefined, token |-> Undefined]
  ELSE IF \/ resp.body.json = "null"
          \/ Not(resp.body.obj, "access_token")
          \/ Not(resp.body.obj, "expires_in")
          \/ Not(resp.body.obj, "refresh_token")
          \/ Not(resp.body.obj, "refresh_token_expires_in")
  THEN [act |-> "send", page |-> PageParseToken, token |-> Undefined]
  ELSE [act |-> "bind", page |-> Undefined, token |-> resp.body.obj.access_token]

\* the continuation of `await fetch(...)`, `await response.json()` in part_000
FetchTokenContinuation(resp) ==
  IF resp.error \/ resp.body.json # "object"
  THEN [act |-> "throw", page |-> Undefined, token |-> Undefined]
  ELSE [act |-> "bind", page |-> Undefined, token |-> Get(resp.body.obj, "access_token")]

TokenResult(resp) ==
  IF variant = "part_000" THEN FetchTokenContinuation(resp) ELSE RequestTokenCallback(resp)

\* the binding that keeps a token the session already holds
BindTokenIfAbsent(r, token) ==
  IF variant \in SessionVariants /\ r.session.token = Undefined
  THEN [r EXCEPT !.session = [exists |-> TRUE, token |-> token]]
  ELSE r

\* sess = req.session; sess.token = json.access_token
BindToken(r, token) ==
  IF variant \in SessionVariants
  THEN [r EXCEPT !.session = [exists |-> TRUE, token |-> token]]
  ELSE r

\* the token endpoint answered 200 with all four required properties
FullSuccess(resp) ==
  /\ ~resp.error
  /\ resp.statusCode = 200
  /\ resp.body.json = "object"
  /\ RequiredFields \subseteq DOMAIN resp.body.obj

\* the GET of the profile, issued by getUserInfo / oauthFlowCompleted
ProfileGet(token) ==
  [method |-> "GET", url |-> "https://webexapis.com/v1/people/me", bearer |-> token]

\* the callback of the profile GET in the request-based variants
RequestProfileCallback(resp) ==
  IF resp.error \/ resp.statusCode # 200 THEN [act |-> "send", page |-> PageAccountDetails]
  ELSE IF resp.body.json = "invalid" THEN [act |-> "throw", page |-> Undefined]
  ELSE IF resp.body.json = "null" \/ Not(resp.body.obj, "displayName")
  THEN [act |-> "send", page |-> PageAccountDetails]
  ELSE [act |-> "send", page |-> PageDisplayName(resp.body.obj.displayName)]

\* the continuation of the awaits of getUserInfo in part_000
FetchProfileContinuation(resp) ==
  IF resp.error \/ resp.body.json # "object" THEN [act |-> "throw", page |-> Undefined]
  ELSE [act |-> "send", page |-> PageDisplayName(Get(resp.body.obj, "displayName"))]

ProfileResult(resp) ==
  IF variant = "part_000" THEN FetchProfileContinuation(resp) ELSE RequestProfileCallback(resp)

\* what a fault does that escapes a handler after its first suspension: an
\* exception thrown in a request callback ends the process; a rejected promise
\* of an async handler ends the process or is only reported, the request then
\* stays without a response
FaultOutcomes == IF variant = "part_000" THEN {"crashed", "hung"} ELSE {"crashed"}

(* ------------------------ home, logout, rooms -------------------------- *)

\* the authorization URL: a literal of the source with the state appended
InitiateURL ==
  IF variant = "part_000"
  THEN "https://webexapis.com/v1/authorize?client_id=C97c955d459b1195dd914456c56d7193b3b9db2f96e55226d1bb875c6dc40c16a&response_type=code&redirect_uri=http%3A%2F%2Flocalhost%3A8080%2Foauth&scope=spark%3Akms%20spark%3Apeople_read%20spark%3Arooms_read&state=" \o state
  ELSE "https://webexapis.com/v1/authorize?client_id=C909b987b64167258774e532d595702ef864a35f7614678dbe4046056daf67d63&response_type=code&redirect_uri=http%3A%2F%2Flocalhost%3A8080%2Foauth&scope=spark%3Akms%20spark%3Apeople_read%20spark%3Arooms_read%20spark%3Arooms_write&state=" \o state

\* the redirect target of the logout route
LogoutRedirect(token) == "https://idbroker.webex.com/idb/oauth2/v1/logout?token=" \o token

\* getLogoutURL of server.js
getLogoutURL(token, redirectURL) ==
  "https://idbroker.webex.com/idb/oauth2/v1/logout?"
    \o "goto=" \o EncodeURIComponent(StripCallbackPath(redirectURL))
    \o "&token=" \o token

\* the GET of the rooms
RoomsGet(token) ==
  [method |-> "GET", url |-> "https://webexapis.com/v1/rooms", bearer |-> token]

\* the callback of the rooms GET in part_001
RequestRoomsCallback(resp) ==
  IF resp.error \/ resp.statusCode # 200 THEN [act |-> "send", page |-> PageAccountDetails]
  ELSE IF resp.body.json = "invalid" THEN [act |-> "throw", page |-> Undefined]
  ELSE IF resp.body.json = "null" \/ Not(resp.body.obj, "items")
  THEN [act |-> "send", page |-> PageRooms]
  ELSE [act |-> "send", page |-> PageListRooms(resp.body.obj.items)]

\* the continuation of the awaits of the rooms handler in part_000
FetchRoomsContinuation(resp) ==
  IF resp.error \/ resp.body.json # "object" THEN [act |-> "throw", page |-> Undefined]
  ELSE [act |-> "send", page |-> PageListRooms(Get(resp.body.obj, "items"))]

RoomsResult(resp) ==
  IF variant = "part_000" THEN FetchRoomsContinuation(resp) ELSE RequestRoomsCallback(resp)

(* ------------------------------ start-up ------------------------------- *)

\* the client registration as each variant reads it: from the environment, or
\* (part_000) the id and the redirect URI from the authorization URL it hard-codes
Configs ==
  CASE variant = "part_000" ->
         [clientId : {URLClientId}, clientSecret : {Empty, EnvClientSecret},
          redirectURI : {URLRedirectURI}]
    [] OTHER ->
         [clientId : {Empty, EnvClientId}, clientSecret : {Empty, EnvClientSecret},
          redirectURI : {Empty, EnvRedirectURI}]

\* the check with the test of the client secret left out
ConfigCompleteNoSecret == config.clientId # Empty /\ config.redirectURI # Empty

\* the configuration check at module load
ConfigComplete ==
  config.clientId # Empty /\ config.clientSecret # Empty /\ config.redirectURI # Empty

Init ==
  /\ variant \in Variants
  /\ workload \in Workloads
  /\ config \in Configs
  /\ phase = "boot"
  /\ state = NotDeclared
  /\ sessions = [a \in Agents |-> NoSession]
  /\ inflight = EmptyBag
  /\ issued = 0
  /\ presented = {}
  /\ last = NoStep

\* module load up to app.listen
Start ==
  /\ phase = "boot"
  /\ phase' = IF ConfigComplete THEN "listening" ELSE "exited"
  /\ state' = IF variant = "part_000" \/ (variant = "part_001" /\ ConfigComplete)
              THEN ExpectedState ELSE NotDeclared
  /\ UNCHANGED <<variant, workload, config, sessions, inflight, issued, presented, last>>

(* ------------------------------ handlers ------------------------------- *)

\* the requests awaiting a provider response
Pending == BagToSet(inflight)

\* the workload lets one more request wait for the provider
CanSuspend ==
  IF workload \in {"callbacks", "relogin"}
  THEN BagCardinality(inflight) < MaxInflight
  ELSE inflight = EmptyBag

NewRequest(a, route) ==
  [pc |-> "handling", route |-> route, agent |-> a, code |-> Undefined,
   session |-> LoadSession(a), orig |-> LoadSession(a),
   posts |-> <<>>, gets |-> <<>>, sent |-> <<>>,
   exchanged |-> FALSE, outdated |-> FALSE, stamp |-> 0, superseded |-> FALSE,
   returned |-> Undefined, logged |-> <<>>]

\* res.send(page): the response ends and the session is committed
Respond(r, page) == [r EXCEPT !.pc = "done", !.sent = Append(@, page)]

\* the stamp of a callback of agent a that arrives now
NextStamp(a) ==
  LET stamps == {p.stamp : p \in {q \in Pending : q.agent = a /\ q.route = "oauth"}}
  IN IF stamps = {} THEN 1 ELSE 1 + CHOOSE m \in stamps : \A n \in stamps : n <= m

\* app.get("/oauth"): the handler up to its return or its first suspension
OAuth(a, q) ==
  /\ phase = "listening"
  /\ workload = "relogin" => a = "ua1"
  /\ LET pre == Precondition(q)
         r0  == [NewRequest(a, "oauth") EXCEPT !.code = q.code]
     IN IF pre.act = "post"
        THEN /\ CanSuspend
             /\ LET r == [r0 EXCEPT !.pc = "awaitToken",
                                    !.stamp = NextStamp(a),
                                    !.posts = Append(@, TokenForm(q.code))]
                IN /\ inflight' = inflight (+) SetToBag({r})
                   /\ last' = [step |-> "oauth", req |-> r, query |-> q,
                               resp |-> NoResponse, before |-> sessions[a]]
                   /\ sessions' = sessions
        ELSE LET r == Respond(r0, pre.page)
             IN /\ last' = [step |-> "oauth", req |-> r, query |-> q,
                            resp |-> NoResponse, before |-> sessions[a]]
                /\ sessions' = CommitSession(r)
                /\ inflight' = inflight
  /\ UNCHANGED <<variant, workload, config, phase, state, issued, presented>>

\* a pending request p after request r has left the pending ones: the stamps
\* of the callbacks of the session of r stay consecutive, and when r was
\* answered as a callback whose exchange succeeded, those that arrived before
\* it are superseded
Supersede(r, answered, p) ==
  IF r.route = "oauth" /\ p.route = "oauth" /\ p.agent = r.agent
  THEN IF p.stamp > r.stamp
       THEN [p EXCEPT !.stamp = @ - 1]
       ELSE IF answered /\ r.exchanged THEN [p EXCEPT !.superseded = TRUE] ELSE p
  ELSE p
Superseded(r, answered, B) ==
  [x \in {Supersede(r, answered, p) : p \in BagToSet(B)} |->
     BagCardinality([p \in {q \in BagToSet(B) : Supersede(r, answered, q) = x} |-> B[p]])]

\* a fault escapes the step of the pending request r: the request gets no
\* response and no later step, its session is not committed
Fault(r, step, resp, outcome) ==
  /\ phase' = IF outcome = "crashed" THEN "crashed" ELSE phase
  /\ inflight' = Superseded(r, FALSE, inflight (-) SetToBag({r}))
  /\ last' = [step |-> step, req |-> [r EXCEPT !.pc = outcome],
              query |-> NoQuery, resp |-> resp, before |-> sessions[r.agent]]
  /\ sessions' = sessions

\* the response ends in the step of the pending request r
Finish(r, step, resp, page) ==
  /\ phase' = phase
  /\ inflight' = Superseded(r, TRUE, inflight (-) SetToBag({r}))
  /\ last' = [step |-> step, req |-> Respond(r, page),
              query |-> NoQuery, resp |-> resp, before |-> sessions[r.agent]]
  /\ sessions' = CommitSession(Respond(r, page))

\* the token the provider issues next, undefined when it issues no more
TokenBudget == IF workload = "relogin" THEN Len(TokenSeq) ELSE Len(TokenSeq) - 1
NextToken == IF issued < TokenBudget THEN TokenSeq[issued + 1] ELSE Undefined

\* the token endpoint answers (or the call fails) and the handler resumes
TokenResponse(r, resp) ==
  /\ phase = "listening"
  /\ r.pc = "awaitToken"
  /\ issued' = IF "access_token" \in DOMAIN resp.body.obj THEN issued + 1 ELSE issued
  /\ LET res == TokenResult(resp)
     IN CASE res.act = "send" -> Finish(r, "token", resp, res.page)
          [] res.act = "throw" ->
               \E outcome \in FaultOutcomes : Fault(r, "token", resp, outcome)
          [] OTHER ->
               LET r1 == [BindToken(r, res.token) EXCEPT
                            !.pc = "awaitProfile",
                            !.exchanged = FullSuccess(resp),
                            !.gets = Append(@, ProfileGet(res.token))]
               IN /\ phase' = phase
                  /\ inflight' = (inflight (-) SetToBag({r})) (+) SetToBag({r1})
                  /\ last' = [step |-> "token", req |-> r1, query |-> NoQuery,
                              resp |-> resp, before |-> sessions[r.agent]]
                  /\ sessions' = sessions
  /\ UNCHANGED <<variant, workload, config, state, presented>>

\* people/me answers (or the call fails) and getUserInfo resumes
ProfileResponse(r, resp) ==
  /\ phase = "listening"
  /\ r.pc = "awaitProfile"
  /\ LET res == ProfileResult(resp)
     IN IF res.act = "send"
        THEN Finish(r, "profile", resp, res.page)
        ELSE \E outcome \in FaultOutcomes : Fault(r, "profile", resp, outcome)
  /\ UNCHANGED <<variant, workload, config, state, issued, presented>>

\* app.get("/index.html"): the page with the authorization URL
Home(a) ==
  /\ phase = "listening"
  /\ variant \in SessionVariants
  /\ workload = "routes"
  /\ LET r == Respond(NewRequest(a, "home"), PageIndex(InitiateURL))
     IN /\ last' = [step |-> "home", req |-> r, query |-> NoQuery,
                    resp |-> NoResponse, before |-> sessions[a]]
        /\ sessions' = CommitSession(r)
  /\ presented' = presented \cup {a}
  /\ UNCHANGED <<variant, workload, config, phase, state, inflight, issued>>

\* the pending requests after a logout of agent a
Outdate(a, r) == IF r.agent = a THEN [r EXCEPT !.outdated = TRUE] ELSE r
Outdated(a) ==
  [x \in {Outdate(a, r) : r \in Pending} |->
     BagCardinality([r \in {p \in Pending : Outdate(a, p) = x} |-> inflight[r]])]

\* app.get("/logout"): the redirect, then req.session.destroy()
Logout(a) ==
  /\ phase = "listening"
  /\ variant \in SessionVariants
  /\ workload = "routes"
  /\ LET r0 == NewRequest(a, "logout")
         r  == [Respond(r0, Redirect(LogoutRedirect(r0.session.token)))
                  EXCEPT !.session = NoSession]
     IN last' = [step |-> "logout", req |-> r, query |-> NoQuery,
                 resp |-> NoResponse, before |-> sessions[a]]
  /\ sessions' = [sessions EXCEPT ![a] = NoSession]
  /\ inflight' = Outdated(a)
  /\ UNCHANGED <<variant, workload, config, phase, state, issued, presented>>

\* app.get("/listrooms"): the handler up to its first suspension; part_000
\* answers a session without a token with the text "/" and goes on
ListRooms(a) ==
  /\ phase = "listening"
  /\ variant \in SessionVariants
  /\ workload = "routes"
  /\ CanSuspend
  /\ LET r0 == NewRequest(a, "listrooms")
         token == r0.session.token
         r1 == IF variant = "part_000" /\ token = Undefined
               THEN [r0 EXCEPT !.sent = Append(@, "/")]
               ELSE r0
         r  == [r1 EXCEPT !.pc = "awaitRooms", !.gets = Append(@, RoomsGet(token))]
     IN /\ inflight' = inflight (+) SetToBag({r})
        /\ last' = [step |-> "listrooms", req |-> r, query |-> NoQuery,
                    resp |-> NoResponse, before |-> sessions[a]]
        /\ sessions' = CommitSession(r)
  /\ UNCHANGED <<variant, workload, config, phase, state, issued, presented>>

\* the resumption with a res.send() that writes whether or not the response
\* has ended
RoomsResponseNoGuard(r, resp) ==
  /\ phase = "listening"
  /\ r.pc = "awaitRooms"
  /\ LET res == RoomsResult(resp)
     IN IF res.act = "send"
        THEN Finish(r, "rooms", resp, res.page)
        ELSE \E outcome \in FaultOutcomes : Fault(r, "rooms", resp, outcome)
  /\ UNCHANGED <<variant, workload, config, state, issued, presented>>

\* the rooms endpoint answers (or the call fails) and the handler resumes; a
\* res.send() after the response has ended throws
RoomsResponse(r, resp) ==
  /\ phase = "listening"
  /\ r.pc = "awaitRooms"
  /\ LET res == RoomsResult(resp)
     IN IF res.act = "send" /\ r.sent = <<>>
        THEN Finish(r, "rooms", resp, res.page)
        ELSE \E outcome \in FaultOutcomes : Fault(r, "rooms", resp, outcome)
  /\ UNCHANGED <<variant, workload, config, state, issued, presented>>

Next ==
  \/ Start
  \/ \E a \in Agents, q \in Queries : OAuth(a, q)
  \/ \E r \in Pending, resp \in TokenResponses(NextToken) : TokenResponse(r, resp)
  \/ \E r \in Pending, resp \in ProfileResponses : ProfileResponse(r, resp)
  \/ \E a \in Agents : Home(a)
  \/ \E a \in Agents : Logout(a)
  \/ \E a \in Agents : ListRooms(a)
  \/ \E r \in Pending, resp \in RoomsResponses : RoomsResponse(r, resp)

Spec == Init /\ [][Next]_vars

(* ------------------------- refreshAccessToken -------------------------- *)

\* refresh tokens a caller may pass
RefreshTokens == {"R1", "R2"}

\* the form of the POST that refreshAccessToken issues
RefreshForm(refresh_token) ==
  [method |-> "POST", url |-> "https://webexapis.com/v1/access_token",
   grant_type |-> "refresh_token", client_id |-> config.clientId,
   client_secret |-> config.clientSecret, refresh_token |-> refresh_token]

\* JSON.stringify of a token bundle
Stringify(json) ==
  "{\"access_token\":\"" \o json.access_token
    \o "\",\"expires_in\":" \o ToString(json.expires_in)
    \o ",\"refresh_token\":\"" \o json.refresh_token
    \o "\",\"refresh_token_expires_in\":" \o ToString(json.refresh_token_expires_in) \o "}"

\* the callback of the refresh POST: every path writes one line with debug()
\* and returns nothing; JSON.parse of a body that is no JSON throws
RefreshCallback(resp) ==
  IF resp.error
  THEN [act |-> "return", log |-> "Could not reach Webex to refresh access token."]
  ELSE IF resp.statusCode # 200
  THEN [act |-> "return",
        log |-> "Access token not issued with status code: " \o ToString(resp.statusCode)]
  ELSE IF resp.body.json = "invalid"
  THEN [act |-> "throw", log |-> Undefined]
  ELSE IF \/ resp.body.json = "null"
          \/ Not(resp.body.obj, "access_token")
          \/ Not(resp.body.obj, "expires_in")
          \/ Not(resp.body.obj, "refresh_token")
          \/ Not(resp.body.obj, "refresh_token_expires_in")
  THEN [act |-> "return", log |-> "Could not parse response"]
  ELSE [act |-> "return", log |-> "Newly issued tokens: " \o Stringify(resp.body.obj)]

\* a process of server.js in which a caller calls refreshAccessToken
InitRefresh ==
  /\ variant = "server.js"
  /\ workload = "refresh"
  /\ config \in Configs
  /\ phase = "boot"
  /\ state = NotDeclared
  /\ sessions = [a \in Agents |-> NoSession]
  /\ inflight = EmptyBag
  /\ issued = 0
  /\ presented = {}
  /\ last = NoStep

\* refreshAccessToken(refresh_token): issues the POST and returns to its
\* caller, without a value, before the response is there
RefreshAccessToken(refresh_token) ==
  /\ phase = "listening"
  /\ BagCardinality(inflight) < MaxInflight
  /\ LET r == [Idle EXCEPT !.pc = "awaitRefresh", !.route = "refresh",
                          !.posts = Append(@, RefreshForm(refresh_token)),
                          !.returned = Undefined]
     IN /\ inflight' = inflight (+) SetToBag({r})
        /\ last' = [step |-> "refresh", req |-> r, query |-> NoQuery,
                    resp |-> NoResponse, before |-> NoSession]
  /\ UNCHANGED <<variant, workload, config, phase, state, sessions, issued, presented>>

\* the token endpoint answers the refresh POST (or the call fails)
RefreshResponse(r, resp) ==
  /\ phase = "listening"
  /\ r.pc = "awaitRefresh"
  /\ issued' = IF "access_token" \in DOMAIN resp.body.obj THEN issued + 1 ELSE issued
  /\ inflight' = inflight (-) SetToBag({r})
  /\ LET res == RefreshCallback(resp)
     IN IF res.act = "throw"
        THEN /\ phase' = "crashed"
             /\ last' = [step |-> "refreshed", req |-> [r EXCEPT !.pc = "crashed"],
                         query |-> NoQuery, resp |-> resp, before |-> NoSession]
        ELSE /\ phase' = phase
             /\ last' = [step |-> "refreshed",
                         req |-> [r EXCEPT !.pc = "done", !.logged = Append(@, res.log)],
                         query |-> NoQuery, resp |-> resp, before |-> NoSession]
  /\ UNCHANGED <<variant, workload, config, state, sessions, presented>>

NextRefresh ==
  \/ Start
  \/ \E refresh_token \in RefreshTokens : RefreshAccessToken(refresh_token)
  \/ \E r \in Pending, resp \in TokenResponses(NextToken) : RefreshResponse(r, resp)

SpecRefresh == InitRefresh /\ [][NextRefresh]_vars

(* ------------------------------ properties ----------------------------- *)

\* the last step was the synchronous part of a callback handler
CallbackStep == last.step = "oauth"
\* the last step resumed a callback with the answer of the token endpoint
ExchangeStep == last.step = "token"
\* the last step resumed a callback with the answer of people/me
ProfileStep == last.step = "profile"

\* the request of the last step issued no token POST and will issue none
NoTokenPost == last.req.posts = <<>> /\ last.req.pc = "done"
\* the last step wrote neither the session of its request nor the store
SessionUntouched ==
  /\ last.req.session = last.req.orig
  /\ sessions[last.req.agent] = last.before

\* C1: a callback that carries code and state, the state differing from the
\* expected one, issues no POST to the token endpoint and leaves the token of
\* its session as it was
C1_StateMismatchNoExchange ==
  (/\ CallbackStep
   /\ last.query.code # Undefined
   /\ last.query.state # Undefined
   /\ last.query.state # state)
    => NoTokenPost /\ SessionUntouched

\* a mismatching callback was handled in a session that holds a token
C1_Witness ==
  /\ CallbackStep
  /\ variant = "part_001"
  /\ last.query = [error |-> Undefined, code |-> "abc123", state |-> ForgedState]
  /\ last.req.sent = <<PageStateMismatch>>
  /\ sessions[last.req.agent].token \in Tokens

\* C4: a callback with error=access_denied, invalid_scope or server_error
\* issues no token POST, leaves the session as it was, and is answered with a
\* page that no other error value is answered with
C4_DenialKindsDistinct ==
  (/\ CallbackStep
   /\ last.query.error \in {"access_denied", "invalid_scope", "server_error"})
    => /\ NoTokenPost
       /\ SessionUntouched
       /\ Len(last.req.sent) = 1
       /\ \A e \in ErrorKinds \ {last.query.error} : ErrorPage(e) # last.req.sent[1]

\* an invalid_scope callback was answered in a session that holds a token
C4_Witness ==
  /\ CallbackStep
  /\ last.query.error = "invalid_scope"
  /\ last.req.sent = <<PageInvalidScope>>
  /\ sessions[last.req.agent].token \in Tokens

DenialPages == {PageDeclined, PageInvalidScope, PageServerError, PageNotImplemented}

\* C5: the callback handler checks (1) an error parameter, (2) a missing code
\* or state, (3) a state mismatch, in this order; the first check that fails
\* decides the page, the three pages differ, and none comes with a token POST
C5_PreconditionOrder ==
  (CallbackStep /\ variant \in SessionVariants)
    => LET q == last.query
           sent == last.req.sent
       IN /\ q.error # Undefined
               => Len(sent) = 1 /\ sent[1] \in DenialPages /\ NoTokenPost
          /\ (q.error = Undefined /\ (q.code = Undefined \/ q.state = Undefined))
               => sent = <<PageUnexpectedQuery>> /\ NoTokenPost
          /\ (q.error = Undefined /\ q.code # Undefined
                /\ q.state # Undefined /\ q.state # state)
               => sent = <<PageStateMismatch>> /\ NoTokenPost
          /\ PageUnexpectedQuery \notin DenialPages
          /\ PageStateMismatch \notin DenialPages
          /\ PageUnexpectedQuery # PageStateMismatch

\* a callback with an error parameter, a code and the matching state was denied
C5_Witness ==
  /\ CallbackStep
  /\ variant \in SessionVariants
  /\ last.query = [error |-> "access_denied", code |-> "abc123", state |-> ExpectedState]
  /\ last.req.sent = <<PageDeclined>>

\* C3: after a callback whose exchange was answered 200 with a complete
\* bundle, the session of the request holds the access_token of the bundle
\* once the request is answered, whatever the session held before
C3_SuccessBindsToken ==
  variant \in SessionVariants
    => /\ (ExchangeStep /\ FullSuccess(last.resp))
            => /\ last.req.pc = "awaitProfile"
               /\ last.req.session = Session(last.resp.body.obj.access_token)
       /\ (ProfileStep /\ last.req.pc = "done" /\ last.req.session.token \in Tokens)
            => sessions[last.req.agent] = Session(last.req.session.token)

\* a callback was answered in a session that held another token before
C3_Witness ==
  /\ ProfileStep
  /\ variant = "part_001"
  /\ last.req.pc = "done"
  /\ last.before = Session("T1")
  /\ sessions[last.req.agent] = Session("T2")

\* C10: a callback that passes the three checks issues one POST with
\* grant_type=authorization_code and its own code, in the same step; no later
\* step of the request issues another, and no session and no process-wide
\* value holds the code
C10_OnePostPerCallback ==
  variant \in SessionVariants
    => /\ (/\ CallbackStep
           /\ last.query.error = Undefined
           /\ last.query.code # Undefined
           /\ last.query.state = state)
            => /\ Len(last.req.posts) = 1
               /\ last.req.posts[1].method = "POST"
               /\ last.req.posts[1].grant_type = "authorization_code"
               /\ last.req.posts[1].code = last.query.code
       /\ (ExchangeStep \/ ProfileStep) => Len(last.req.posts) = 1
       /\ \A r \in Pending :
            r.route = "oauth" => Len(r.posts) = 1 /\ r.posts[1].code = r.code
       /\ \A a \in Agents : sessions[a].token \notin Codes
       /\ state \notin Codes

\* the token POST of a callback failed at the transport and the callback was
\* answered without a second POST
C10_Witness ==
  /\ ExchangeStep
  /\ variant = "part_001"
  /\ last.resp.error
  /\ last.req.pc = "done"
  /\ Len(last.req.posts) = 1

\* C2: the handler writes the token of the session exactly when the exchange
\* fully succeeded (status 200, all four properties present): never after a
\* transport failure, another status or a body that lacks a property
C2_TokenBoundIffExchangeSucceeded ==
  (ExchangeStep /\ variant \in SessionVariants)
    => (last.req.session # last.req.orig <=> FullSuccess(last.resp))

\* C6: a callback that fails (denied, malformed, state mismatch, transport
\* failure, status 400, 401 or another, body lacking a property) leaves the
\* token of its session as it was
C6_FailureLeavesSession ==
  variant \in SessionVariants
    => /\ (CallbackStep /\ last.req.pc = "done") => SessionUntouched
       /\ (ExchangeStep /\ ~FullSuccess(last.resp)) => SessionUntouched
       /\ (ProfileStep /\ last.req.session = last.req.orig)
            => sessions[last.req.agent] = last.before

\* C7: a token response of status 200 whose JSON body lacks a required
\* property is answered with the parse-failure page; no token is bound and no
\* profile GET is issued
C7_IncompleteBundleRejected ==
  (/\ ExchangeStep
   /\ ~last.resp.error
   /\ last.resp.statusCode = 200
   /\ last.resp.body.json = "object"
   /\ ~(RequiredFields \subseteq DOMAIN last.resp.body.obj))
    => /\ last.req.sent = <<PageParseToken>>
       /\ last.req.session = last.req.orig
       /\ last.req.gets = <<>>

\* C8: whatever the provider does, the handler ends with a page and no fault
\* escapes it; a 200 body that is no JSON gives the parse-failure page, a 400
\* body that is no JSON a bad-request page
C8_NoFaultEscapes ==
  /\ ExchangeStep
       => /\ last.req.pc \in {"done", "awaitProfile"}
          /\ (~last.resp.error /\ last.resp.statusCode = 200
                /\ last.resp.body.json = "invalid")
               => last.req.sent = <<PageParseToken>>
          /\ (~last.resp.error /\ last.resp.statusCode = 400
                /\ last.resp.body.json = "invalid")
               => Len(last.req.sent) = 1
  /\ ProfileStep => last.req.pc = "done" /\ Len(last.req.sent) = 1

\* C9: a token response of another status than 200 is answered with the
\* bad-request page for 400, the authentication-error page for 401 and the
\* try-again page otherwise; the three differ; no token is bound and no
\* profile GET is issued
C9_RefusalPages ==
  (/\ ExchangeStep
   /\ variant \in {"part_001", "server.js"}
   /\ ~last.resp.error
   /\ last.resp.statusCode # 200)
    => /\ Len(last.req.sent) = 1
       /\ last.resp.statusCode = 400
            => last.req.sent[1] \notin {PageAuthError, PageNoAccessToken, PageParseToken}
       /\ last.resp.statusCode = 401 => last.req.sent[1] = PageAuthError
       /\ last.resp.statusCode \notin {400, 401} => last.req.sent[1] = PageNoAccessToken
       /\ PageAuthError # PageNoAccessToken
       /\ last.req.session = last.req.orig
       /\ last.req.gets = <<>>

\* the last step was the home route, the logout route, the synchronous part of
\* the rooms route, the resumption of the rooms route
HomeStep == last.step = "home"
LogoutStep == last.step = "logout"
ListRoomsStep == last.step = "listrooms"
RoomsStep == last.step = "rooms"

\* C11: within one callback request the profile GET is issued only after the
\* exchange was answered 200 with a complete bundle and its access_token was
\* bound to the session; at most one is issued, and its bearer credential is
\* that access_token
C11_ProfileGetAfterBind ==
  /\ CallbackStep => last.req.gets = <<>>
  /\ (ExchangeStep /\ last.req.gets # <<>>)
       => /\ FullSuccess(last.resp)
          /\ Len(last.req.gets) = 1
          /\ last.req.gets[1].bearer = last.resp.body.obj.access_token
          /\ variant \in SessionVariants
               => last.req.session.token = last.req.gets[1].bearer
  /\ ProfileStep => Len(last.req.gets) = 1

\* the profile fetch failed: at the transport, with another status than 200,
\* or with a 200 JSON body that carries no displayName
ProfileFailed(resp) ==
  \/ resp.error
  \/ resp.statusCode # 200
  \/ resp.body.json = "null"
  \/ resp.body.json = "object" /\ "displayName" \notin DOMAIN resp.body.obj

\* C12: when the exchange of a callback succeeded and its profile fetch fails,
\* the callback is answered with the page of the failed fetch and the session
\* holds the access_token that the callback bound
C12_ProfileFailureKeepsToken ==
  (/\ ProfileStep
   /\ variant \in SessionVariants
   /\ last.req.exchanged
   /\ ProfileFailed(last.resp))
    => /\ last.req.sent = <<PageAccountDetails>>
       /\ sessions[last.req.agent] = Session(last.req.gets[1].bearer)

\* C13: a request to the rooms route from a session that holds no token is
\* answered with a redirect to the entry point and issues no GET to the rooms
\* endpoint
C13_NoTokenNoRoomsGet ==
  (ListRoomsStep /\ last.req.orig.token = Undefined)
    => /\ last.req.gets = <<>>
       /\ last.req.pc = "done"
       /\ Len(last.req.sent) = 1
       /\ last.req.sent[1] \in {Redirect("/"), Redirect("/index.html")}

\* C14: a logout destroys the session record whether or not it held a token;
\* the home and the rooms route observe the token of the record; and a session
\* without token gets one only from a callback whose exchange succeeded and
\* that arrived after the last logout of the session
C14_LogoutDestroysSession ==
  variant \in SessionVariants
    => /\ LogoutStep
            => sessions[last.req.agent] = NoSession /\ last.req.session = NoSession
       /\ (HomeStep \/ ListRoomsStep) => last.req.orig.token = last.before.token
       /\ (/\ last.step # "none"
           /\ last.before.token = Undefined
           /\ sessions[last.req.agent].token # Undefined)
            => /\ last.req.route = "oauth"
               /\ last.req.exchanged
               /\ ~last.req.outdated

\* C15: a logout request is answered with a redirect to the logout endpoint
\* of the provider that carries goto, the redirect URI without its callback
\* path, and token, the token the session held when the request arrived
C15_LogoutRedirectTarget ==
  LogoutStep
    => last.req.sent = <<Redirect(getLogoutURL(last.req.orig.token, config.redirectURI))>>

\* C16: if client_id, client_secret or redirect_uri is empty at process start,
\* the process never listens: no handler ever runs, no request waits for the
\* provider and no session is ever stored
C16_IncompleteConfigNeverServes ==
  (config.clientId = Empty \/ config.clientSecret = Empty \/ config.redirectURI = Empty)
    => /\ phase \in {"boot", "exited"}
       /\ last = NoStep
       /\ inflight = EmptyBag
       /\ \A a \in Agents : sessions[a] = NoSession

\* the module was loaded with only the client secret missing and returned
\* before app.listen
C16_Witness ==
  /\ phase = "exited"
  /\ config.clientId # Empty
  /\ config.clientSecret = Empty
  /\ config.redirectURI # Empty

\* C17: the expected state is assigned before the process accepts a request
\* and never changes: whenever the process serves, it is the one defined value,
\* and a callback with code and state is answered by comparing with it
C17_ExpectedStateFixed ==
  /\ phase \in {"listening", "crashed"} => state = ExpectedState
  /\ (/\ CallbackStep
      /\ last.query.error = Undefined
      /\ last.query.code # Undefined
      /\ last.query.state # Undefined)
       => IF last.query.state = ExpectedState
          THEN last.req.pc = "awaitToken"
          ELSE last.req.sent = <<PageStateMismatch>>

\* the outcome of a resource GET whose JSON body must carry field
ResourceOutcome(resp, field) ==
  IF resp.error THEN "NetworkError"
  ELSE IF resp.statusCode # 200 THEN "UnexpectedStatus"
  ELSE IF resp.body.json = "null" \/ field \notin DOMAIN resp.body.obj
  THEN "MalformedResponse"
  ELSE "Success"

\* the pages that report a failed resource GET
ResourceFailurePages == {PageAccountDetails, PageRooms}

\* C18: a resource GET (profile: displayName, rooms: items) that fails at the
\* transport, else answers another status than 200, else answers a JSON body
\* without the required field, is answered with a failure page; only a GET
\* that succeeds has its data rendered (a 200 body that is no JSON, and a
\* rooms GET without a token, are left out)
C18_ResourceClassification ==
  /\ (ProfileStep /\ ~(last.resp.statusCode = 200 /\ last.resp.body.json = "invalid"))
       => IF ResourceOutcome(last.resp, "displayName") = "Success"
          THEN last.req.sent = <<PageDisplayName(last.resp.body.obj.displayName)>>
          ELSE Len(last.req.sent) = 1 /\ last.req.sent[1] \in ResourceFailurePages
  /\ (/\ RoomsStep
      /\ last.req.gets[1].bearer # Undefined
      /\ ~(last.resp.statusCode = 200 /\ last.resp.body.json = "invalid"))
       => IF ResourceOutcome(last.resp, "items") = "Success"
          THEN last.req.sent = <<PageListRooms(last.resp.body.obj.items)>>
          ELSE Len(last.req.sent) = 1 /\ last.req.sent[1] \in ResourceFailurePages

\* the authorization URL composed from its four inputs
AuthorizeURL(client_id, redirect_uri, scope, st) ==
  "https://webexapis.com/v1/authorize?client_id=" \o client_id
    \o "&response_type=code&redirect_uri=" \o EncodeURIComponent(redirect_uri)
    \o "&scope=" \o EncodeURIComponent(scope)
    \o "&state=" \o st

\* C19: the authorization URL on the home page is composed from client_id,
\* redirect_uri, scopes and state alone, its client_id and redirect_uri being
\* the configured ones that the token POST sends and its state the expected
\* state of the callback check
C19_AuthorizationURL ==
  /\ HomeStep
       => \E scope \in {URLScope, DefaultScopes} :
            last.req.sent =
              <<PageIndex(AuthorizeURL(config.clientId, config.redirectURI, scope, state))>>
  /\ (CallbackStep /\ last.req.posts # <<>>)
       => /\ last.req.posts[1].client_id = config.clientId
          /\ last.req.posts[1].redirect_uri = config.redirectURI
          /\ last.query.state = state

\* C20: a session gets a token bound by a callback only after the home route
\* has presented the authorization URL to that session
C20_TokenOnlyAfterHome ==
  /\ \A a \in Agents : sessions[a].token # Undefined => a \in presented
  /\ \A r \in Pending :
       (r.route = "oauth" /\ r.session # r.orig) => r.agent \in presented

\* C21: of two callbacks of one stored session that are pending at the same
\* time and whose exchanges both succeed, the one that arrived later decides
\* the token of the session: the answer of a callback, after a later one has
\* bound its token, leaves the session as the later one left it
C21_NewerCallbackWins ==
  (/\ ProfileStep
   /\ variant \in SessionVariants
   /\ last.req.pc = "done"
   /\ last.req.orig.token \in Tokens
   /\ last.req.exchanged
   /\ last.req.superseded)
    => sessions[last.req.agent] = last.before

\* C22: the state check of a callback depends on the received state and the
\* process-wide expected state alone: in every session, whether or not the home
\* route served it and whatever other sessions do, a callback with code and
\* the expected state goes on to the exchange and one with another state is
\* refused; and each of two sessions that log in ends with the access_token of
\* its own callback, never with that of the other
C22_StateCheckIgnoresSession ==
  variant \in SessionVariants
    => /\ (/\ CallbackStep
           /\ last.query.error = Undefined
           /\ last.query.code # Undefined
           /\ last.query.state # Undefined)
            => IF last.query.state = state
               THEN last.req.pc = "awaitToken" /\ Len(last.req.posts) = 1
               ELSE last.req.sent = <<PageStateMismatch>>
       /\ (ProfileStep /\ last.req.pc = "done" /\ last.req.exchanged)
            => sessions[last.req.agent].token = last.req.gets[1].bearer
       /\ \A a, b \in Agents :
            (a # b /\ sessions[a].token \in Tokens) => sessions[b].token # sessions[a].token

\* the callback of ua2, a session the home route never served, was answered
\* with ua2's own token bound while a callback of ua1, passed with the same
\* state value, holds ua1's token and awaits the profile
C22_Witness ==
  /\ ProfileStep
  /\ variant \in SessionVariants
  /\ last.req.agent = "ua2"
  /\ last.req.pc = "done"
  /\ last.req.exchanged
  /\ "ua2" \notin presented
  /\ sessions["ua2"].token = last.req.gets[1].bearer
  /\ \E p \in Pending :
       /\ p.agent = "ua1"
       /\ p.pc = "awaitProfile"
       /\ p.exchanged
       /\ p.session.token # sessions["ua2"].token

\* C26: a callback of a stored session that was still awaiting the token
\* endpoint when a logout of that session was handled binds no token to the
\* destroyed session: when its late completion is answered, the session has
\* no token
C26_LateCallbackDoesNotBind ==
  [][(/\ ExchangeStep
      /\ variant \in SessionVariants
      /\ last.req.pc = "awaitProfile"
      /\ last.req.outdated
      /\ last.req.orig.token \in Tokens
      /\ ProfileStep'
      /\ last'.req.pc = "done")
       => sessions'[last.req.agent].token = Undefined]_vars

C27_OwnSessionOnly ==
  /\ [][\A b \in Agents : sessions'[b] # sessions[b] => last'.req.agent = b]_vars
  /\ [](ListRoomsStep =>
          /\ last.req.gets = <<RoomsGet(last.before.token)>>
          /\ \A b \in Agents \ {last.req.agent} :
               sessions[b].token \in Tokens
                 => last.req.gets[1] # RoomsGet(sessions[b].token))

\* the logout of ua1, whose session held a token, was handled while the
\* session of ua2 holds another token
C27_Witness ==
  /\ LogoutStep
  /\ last.req.agent = "ua1"
  /\ last.before.token \in Tokens
  /\ ~sessions["ua1"].exists
  /\ sessions["ua2"].token \in Tokens

(* ------------------------------ liveness ------------------------------- *)

\* a provider call that is pending comes back: with a response of some status
\* and body, or with a transport failure
ProviderAnswers ==
  \E r \in Pending :
    \/ \E resp \in TokenResponses(NextToken) : TokenResponse(r, resp)
    \/ \E resp \in ProfileResponses : ProfileResponse(r, resp)
    \/ \E resp \in RoomsResponses : RoomsResponse(r, resp)

\* the runs in which the user agents request every route, one request awaiting
\* the provider at a time
InitLive == Init /\ workload = "routes"

\* the event loop runs the callback of every provider call that has come back
LiveSpec == InitLive /\ [][Next]_vars /\ WF_vars(ProviderAnswers)

\* C25: every callback request that went on to the provider is eventually
\* answered, given that every provider call eventually comes back
C25_CallbackEventuallyAnswered ==
  (CallbackStep /\ last.req.pc = "awaitToken")
    ~> (last.req.route = "oauth" /\ last.req.pc = "done")

\* the last step called refreshAccessToken
RefreshCallStep == last.step = "refresh"
\* the last step ran the callback of a refresh POST
RefreshedStep == last.step = "refreshed"

\* the classes of a token response that the claims name
RefreshOutcome(resp) ==
  IF resp.error THEN "transport failure"
  ELSE IF resp.statusCode = 400 THEN "bad request"
  ELSE IF resp.statusCode = 401 THEN "authentication error"
  ELSE IF resp.statusCode # 200 THEN "no access token"
  ELSE IF ~FullSuccess(resp) THEN "malformed response"
  ELSE "success"

\* C23: a call of refreshAccessToken issues one POST with grant_type
\* refresh_token and neither code nor redirect_uri; when the response is
\* there, the call has completed with the class of the response (transport
\* failure, 400, 401, other non-200, 200 with a missing field, success)
\* handed back to its caller; and no step of it changes a session
C23_RefreshReturnsResult ==
  /\ [](RefreshCallStep =>
          /\ Len(last.req.posts) = 1
          /\ last.req.posts[1].method = "POST"
          /\ last.req.posts[1].grant_type = "refresh_token"
          /\ "code" \notin DOMAIN last.req.posts[1]
          /\ "redirect_uri" \notin DOMAIN last.req.posts[1])
  /\ [](RefreshedStep =>
          /\ last.req.pc = "done"
          /\ last.req.returned = RefreshOutcome(last.resp))
  /\ [][(RefreshCallStep' \/ RefreshedStep') => sessions' = sessions]_vars

====
